---- MODULE Spec2Model ----
(***************************************************************************)
(* Folder-scoped incremental search engine of stream/src-tauri/src/search.rs *)
(* (search_markdown_files, rebuild_search_index, get_or_create_index,      *)
(* sync_index, search_index) as a state machine.  Every call is a process  *)
(* that walks through the statements of its handler; the three process-    *)
(* wide maps, the per-folder sync locks, the on-disk index directories and *)
(* the watched folders are the shared state.                               *)
(***************************************************************************)
EXTENDS Integers, Sequences, FiniteSets, Bags, TLC

\* ------------------------------------------------------------------ bounds
NProcs == 2
MaxCalls == 2
MaxFaults == 1
MaxFsOps == 1
MaxTime == 5
\* the budgets of the runs in which calls do not overlap
MaxSeqCalls == 3
MaxSeqFsOps == 2
\* the budgets of the runs in which a sync fails to read a file
MaxReadCalls == 2
MaxReadFsOps == 1
MaxReadFaults == 1
\* the documents of the index on which a query is tried alone
MaxDocs == 2

\* ------------------------------------------------------- program constants
DebounceSecs == 5
DefaultLimit == 100

\* ------------------------------------------------------------- the universe
Procs == 1..NProcs
Folders == {"A", "B"}
Watched == {"A"}
\* the daily notes that are written and removed while the application runs
Files == {"2024-01-01.md", "2024-01-05.md"}
\* the entries a folder can hold: besides them a note named after a day that
\* is not in the calendar, and a file that is not a daily note
Entries == Files \cup {"2025-02-30.md", "notes.md"}
Terms == {"alice", "paris", "zed"}
\* the entries the folders hold when the application starts
FilesAtStart == {"2024-01-01.md", "2025-02-30.md", "notes.md"}

\* hash_folder_path: SHA-256 hex digest of the path, taken as collision free
hash_folder_path(folder_path) ==
    CASE folder_path = "A" -> "9f86d0"
      [] folder_path = "B" -> "60303a"

Keys == {hash_folder_path(f) : f \in Folders}

\* the YYYY-MM-DD of a file name as a number, for ordering
FileDate(file) ==
    CASE file = "2024-01-01.md" -> 20240101
      [] file = "2024-01-05.md" -> 20240105
      [] file = "2025-02-30.md" -> 20250230

\* what fs::read_to_string returns for a file whose modification time is m:
\* every write gives the file a new modification time and a new content
Content(file, m) ==
    CASE file = "2024-01-01.md" ->
            (CASE m % 3 = 1 -> <<"alice", "", "paris">>
               [] m % 3 = 2 -> <<" ", "alice">>
               [] OTHER     -> <<"", " ">>)
      [] file = "2024-01-05.md" ->
            (CASE m % 2 = 1 -> <<"zed", "alice">>
               [] OTHER     -> <<"", "zed">>)
      [] file = "2025-02-30.md" -> <<"bob">>
      [] OTHER -> <<"alice paris">>

\* line.trim().is_empty()
IsBlank(line) == line \in {"", " "}

NoIndex == [id |-> 0, epoch |-> 0]
NoLock == 0
NoTime == -1
NoProc == 0
NoFiles == [f \in Entries |-> 0]
\* what a call returns: Ok or the error message, with the committed documents
\* its query read (a search) or left behind on return (a rebuild)
NoResult == [status |-> "none", seen |-> EmptyBag]
ErrResult(msg) == [status |-> msg, seen |-> EmptyBag]
OkResult(docs) == [status |-> "ok", seen |-> docs]
NotStarted == [fsOps |-> 0, due |-> FALSE]
\* no query tried yet
NoAnswer == [asked |-> FALSE, query |-> "", limit |-> 0, sort_by_date |-> FALSE,
             found |-> [status |-> "none", matches |-> <<>>, total_results |-> 0],
             returned |-> "none"]

NoWriter == [open |-> FALSE, epoch |-> 0, empty |-> TRUE]

IdleProc ==
    [pc |-> "idle", op |-> "none", folder |-> "A", id |-> 0,
     index |-> NoIndex, sync_lock |-> NoLock, meta_seen |-> FALSE,
     files |-> NoFiles, files_to_add |-> {}, files_to_remove |-> {},
     writer |-> NoWriter, skip |-> "none", result |-> NoResult,
     started |-> NotStarted, syncs |-> 0, committed |-> FALSE, queries |-> 0,
     unread |-> {}, returned_at |-> "none", deleted |-> 0]

VARIABLES
    INDEX_CACHE,     \* key -> cached index handle, or NoIndex
    SYNC_LOCKS,      \* key -> sync lock object of the folder, or NoLock
    LAST_SYNC_TIME,  \* key -> instant of the last recorded sync, or NoTime
    mapMutex,        \* holder of each of the three map mutexes
    lockHeld,        \* sync lock object -> process holding its guard
    disk,            \* key -> the index directory under search_indices/
    fs,              \* folder -> file -> [live, mtime]
    now,             \* the monotonic clock, in seconds
    proc,            \* per call: position and locals
    calls,           \* the operations started so far, in order
    last_call,       \* the call that returned last, and when (kept in the
                     \* runs whose calls do not overlap)
    budget,          \* calls, I/O errors, file changes and failing reads
                     \* of a file still to come
    segment,         \* the documents of the index a query is tried on
    answer           \* that query, and what search_index returned for it

vars == <<INDEX_CACHE, SYNC_LOCKS, LAST_SYNC_TIME, mapMutex, lockHeld, disk,
          fs, now, proc, calls, last_call, budget, segment, answer>>

shared == <<INDEX_CACHE, SYNC_LOCKS, LAST_SYNC_TIME, mapMutex, lockHeld, disk>>
env == <<fs, now>>
queried == <<segment, answer>>

LockIds == 1..(MaxCalls + MaxSeqCalls)

EmptyDir == [exists |-> FALSE, meta |-> FALSE, docs |-> EmptyBag,
             epoch |-> 0, writer |-> NoProc]

Fresh ==
    /\ INDEX_CACHE = [k \in Keys |-> NoIndex]
    /\ SYNC_LOCKS = [k \in Keys |-> NoLock]
    /\ LAST_SYNC_TIME = [k \in Keys |-> NoTime]
    /\ mapMutex = [cache |-> NoProc, locks |-> NoProc, last |-> NoProc]
    /\ lockHeld = [l \in LockIds |-> NoProc]
    /\ disk = [k \in Keys |-> EmptyDir]
    /\ fs = [d \in Folders |-> [f \in Entries |->
                IF f \in FilesAtStart THEN [live |-> TRUE, mtime |-> 1]
                                       ELSE [live |-> FALSE, mtime |-> 0]]]
    /\ now = 0
    /\ proc = [p \in Procs |-> IdleProc]
    /\ calls = <<>>
    /\ last_call = [call |-> IdleProc, at |-> 0]
    /\ segment = <<>>
    /\ answer = NoAnswer

Init ==
    /\ Fresh
    /\ budget = [calls |-> MaxCalls, faults |-> MaxFaults, fsOps |-> MaxFsOps,
                 reads |-> 0]

\* ------------------------------------------------------------- environment
\* An I/O step may fail while the fault budget lasts.
FaultChoice == IF budget.faults > 0 THEN {FALSE, TRUE} ELSE {FALSE}
Charge(fault) ==
    budget' = IF fault THEN [budget EXCEPT !.faults = @ - 1] ELSE budget

\* the files of a batch whose fs::read_to_string fails
ReadFailures(to_add) ==
    {u \in SUBSET to_add : Cardinality(u) <= budget.reads}

\* a file is created or rewritten outside the application
WriteFile(d, f) ==
    /\ budget.fsOps > 0
    /\ fs' = [fs EXCEPT ![d][f] = [live |-> TRUE, mtime |-> @.mtime + 1]]
    /\ budget' = [budget EXCEPT !.fsOps = @ - 1]
    /\ UNCHANGED <<queried, shared, now, proc, calls, last_call>>

\* a file is deleted outside the application
RemoveFile(d, f) ==
    /\ budget.fsOps > 0
    /\ fs[d][f].live
    /\ fs' = [fs EXCEPT ![d][f].live = FALSE]
    /\ budget' = [budget EXCEPT !.fsOps = @ - 1]
    /\ UNCHANGED <<queried, shared, now, proc, calls, last_call>>

\* The clock is read only as the time elapsed since a recorded sync, and only
\* against DebounceSecs: it is let run while some recorded sync is younger.
Tick ==
    /\ now < MaxTime
    /\ \E k \in Keys : /\ LAST_SYNC_TIME[k] # NoTime
                       /\ now - LAST_SYNC_TIME[k] < DebounceSecs
    /\ now' = now + 1
    /\ UNCHANGED <<queried, shared, fs, proc, calls, last_call, budget>>

\* ------------------------------------------------------------ call frames
Key(p) == hash_folder_path(proc[p].folder)

SetProc(p, rec) == proc' = [proc EXCEPT ![p] = rec]

\* the call has returned: its locals and guards are dropped
Returned(p, res) ==
    [IdleProc EXCEPT !.pc = "done", !.op = proc[p].op, !.folder = proc[p].folder,
                     !.id = proc[p].id, !.index = proc[p].index,
                     !.skip = proc[p].skip, !.started = proc[p].started,
                     !.syncs = proc[p].syncs, !.committed = proc[p].committed,
                     !.queries = proc[p].queries, !.unread = proc[p].unread,
                     !.returned_at = proc[p].pc, !.deleted = proc[p].deleted,
                     !.result = res]

\* what is known when a call starts: the time, the file changes still to
\* come, and whether a sync of the folder is due
StartedNow(d) ==
    [fsOps |-> budget.fsOps,
     due |-> \/ LAST_SYNC_TIME[hash_folder_path(d)] = NoTime
             \/ now - LAST_SYNC_TIME[hash_folder_path(d)] >= DebounceSecs]

\* dropping the guard of the folder's sync lock, if this call holds it
DropGuard(p) ==
    [l \in LockIds |-> IF lockHeld[l] = p THEN NoProc ELSE lockHeld[l]]

\* a writer that commits its pending deletions when it is dropped
DropWriterCommitting(p, k) ==
    [disk EXCEPT ![k].writer = IF @ = p THEN NoProc ELSE @,
                 ![k].docs = [x \in {y \in BagToSet(@) :
                                        y.file_path \notin proc[p].files_to_remove}
                                |-> @[x]]]

\* dropping the IndexWriter releases the directory's writer lock file
DropWriter(p, k) ==
    [disk EXCEPT ![k].writer = IF @ = p THEN NoProc ELSE @]

\* the workers of the pool are interchangeable: a call goes to the first
\* worker that is free
FreeWorker(p) ==
    /\ proc[p].pc = "idle"
    /\ \A q \in Procs : q < p => proc[q].pc # "idle"

StartSearch(p, d) ==
    /\ FreeWorker(p)
    /\ budget.calls > 0
    /\ budget' = [budget EXCEPT !.calls = @ - 1]
    /\ calls' = Append(calls, "search")
    /\ SetProc(p, [IdleProc EXCEPT !.pc = "goc_check", !.op = "search",
                                   !.folder = d, !.id = Len(calls) + 1,
                                   !.started = StartedNow(d)])
    /\ UNCHANGED <<queried, shared, env, last_call>>

StartRebuild(p, d) ==
    /\ FreeWorker(p)
    /\ budget.calls > 0
    /\ budget' = [budget EXCEPT !.calls = @ - 1]
    /\ calls' = Append(calls, "rebuild")
    /\ SetProc(p, [IdleProc EXCEPT !.pc = "r_evict_cache", !.op = "rebuild",
                                   !.folder = d, !.id = Len(calls) + 1,
                                   !.started = StartedNow(d)])
    /\ UNCHANGED <<queried, shared, env, last_call>>

Return(p) ==
    /\ proc[p].pc = "done"
    /\ SetProc(p, IdleProc)
    /\ UNCHANGED <<queried, shared, env, calls, last_call, budget>>

\* the same, keeping what the call returned for the call that follows it
ReturnNoted(p) ==
    /\ proc[p].pc = "done"
    /\ SetProc(p, IdleProc)
    /\ last_call' = [call |-> proc[p], at |-> now]
    /\ UNCHANGED <<queried, shared, env, calls, budget>>

\* ---------------------------------------------------- get_or_create_index
AfterIndex(op) == IF op = "search" THEN "s_lock_entry" ELSE "r_new_lock"

IndexError(op) ==
    IF op = "search" THEN "Failed to get or create index"
                     ELSE "Failed to recreate index"

\* lines 75-81: the cache lookup, under the cache mutex
GetOrCreateCheckCache(p) ==
    /\ proc[p].pc = "goc_check"
    /\ mapMutex.cache = NoProc
    /\ IF INDEX_CACHE[Key(p)] # NoIndex
       THEN SetProc(p, [proc[p] EXCEPT !.index = INDEX_CACHE[Key(p)],
                                       !.pc = AfterIndex(proc[p].op)])
       ELSE SetProc(p, [proc[p] EXCEPT !.pc = "goc_dir"])
    /\ UNCHANGED <<queried, shared, env, calls, last_call, budget>>

\* lines 84-88: create_dir_all, then the test for meta.json
GetOrCreateEnsureDir(p) ==
    /\ proc[p].pc = "goc_dir"
    /\ \E fault \in FaultChoice :
        /\ Charge(fault)
        /\ IF fault
           THEN /\ SetProc(p, Returned(p, ErrResult(IndexError(proc[p].op))))
                /\ UNCHANGED disk
           ELSE /\ disk' = [disk EXCEPT ![Key(p)].exists = TRUE]
                /\ SetProc(p, [proc[p] EXCEPT !.meta_seen = disk[Key(p)].meta,
                                              !.pc = "goc_open"])
    /\ UNCHANGED <<queried, INDEX_CACHE, SYNC_LOCKS, LAST_SYNC_TIME, mapMutex, lockHeld,
                   env, calls, last_call>>

\* Index::open_in_dir needs the meta.json it saw; Index::create_in_dir needs
\* the directory and refuses a directory that holds an index already
OpenSucceeds(dir, meta_seen) ==
    /\ dir.exists
    /\ dir.meta = meta_seen

\* lines 88-96
GetOrCreateOpen(p) ==
    /\ proc[p].pc = "goc_open"
    /\ \E fault \in FaultChoice :
        /\ Charge(fault)
        /\ IF ~fault /\ OpenSucceeds(disk[Key(p)], proc[p].meta_seen)
           THEN /\ disk' = [disk EXCEPT ![Key(p)].meta = TRUE]
                /\ SetProc(p, [proc[p] EXCEPT
                        !.index = [id |-> proc[p].id, epoch |-> disk[Key(p)].epoch],
                        !.pc = "goc_store"])
           ELSE /\ SetProc(p, Returned(p, ErrResult(IndexError(proc[p].op))))
                /\ UNCHANGED disk
    /\ UNCHANGED <<queried, INDEX_CACHE, SYNC_LOCKS, LAST_SYNC_TIME, mapMutex, lockHeld,
                   env, calls, last_call>>

\* lines 98-104: the cache insert, under the cache mutex
GetOrCreateStore(p) ==
    /\ proc[p].pc = "goc_store"
    /\ mapMutex.cache = NoProc
    /\ INDEX_CACHE' = [INDEX_CACHE EXCEPT ![Key(p)] = proc[p].index]
    /\ SetProc(p, [proc[p] EXCEPT !.pc = AfterIndex(proc[p].op)])
    /\ UNCHANGED <<queried, SYNC_LOCKS, LAST_SYNC_TIME, mapMutex, lockHeld, disk,
                   env, calls, last_call, budget>>

\* ------------------------------------------------------------------- text
\* A string is known by its characters (Rust's chars()); a character outside
\* ASCII is written by its code point.
Grin == "<1F600>"
CapitalIDot == "<0130>"
CombiningDot == "<0307>"
ArabicThree == "<0663>"

\* n full stops
Stops(n) == [i \in 1..n |-> "."]

Chars(s) ==
    CASE s = "" -> <<>>
      [] s = " " -> <<" ">>
      [] s = "alice" -> <<"a", "l", "i", "c", "e">>
      [] s = "paris" -> <<"p", "a", "r", "i", "s">>
      [] s = "zed" -> <<"z", "e", "d">>
      [] s = "alice paris" -> <<"a", "l", "i", "c", "e", " ", "p", "a", "r", "i", "s">>
      [] s = "paris alice" -> <<"p", "a", "r", "i", "s", " ", "a", "l", "i", "c", "e">>
      [] s = "Alice" -> <<"A", "l", "i", "c", "e">>
      [] s = "<1F600> alice" -> <<Grin, " ", "a", "l", "i", "c", "e">>
      [] s = "<1F600><0130> alice" -> <<Grin, CapitalIDot, " ", "a", "l", "i", "c", "e">>
      [] s = ".{60}alice.{60}" ->
            Stops(60) \o <<"a", "l", "i", "c", "e">> \o Stops(60)
      [] s = "<0130>.{59}alice.{60}" ->
            <<CapitalIDot>> \o Stops(59) \o <<"a", "l", "i", "c", "e">> \o Stops(60)
      [] s = "ALICE" -> <<"A", "L", "I", "C", "E">>
      [] s = "!" -> <<"!">>
      [] s = "*" -> <<"*">>
      [] s = "bob" -> <<"b", "o", "b">>
      [] s = "x:alice" -> <<"x", ":", "a", "l", "i", "c", "e">>
      [] s = "2024-01-01.md" -> <<"2", "0", "2", "4", "-", "0", "1", "-", "0", "1", ".", "m", "d">>
      [] s = "2024-01-05.md" -> <<"2", "0", "2", "4", "-", "0", "1", "-", "0", "5", ".", "m", "d">>
      [] s = "2025-02-30.md" -> <<"2", "0", "2", "5", "-", "0", "2", "-", "3", "0", ".", "m", "d">>
      [] s = "notes.md" -> <<"n", "o", "t", "e", "s", ".", "m", "d">>
      [] s = "2024-01-0<0663>.md" -> <<"2", "0", "2", "4", "-", "0", "1", "-", "0", ArabicThree, ".", "m", "d">>

Whitespace == {" "}
AsciiDigits == {"0", "1", "2", "3", "4", "5"}
\* the decimal digits of Unicode (general category Nd)
DecimalDigits == AsciiDigits \cup {ArabicThree}
LowerLetters == {"a", "b", "c", "d", "e", "i", "l", "m", "n", "o", "p", "r",
                 "s", "t", "x", "z"}
UpperLetters == {"A", "C", "E", "I", "L", CapitalIDot}
\* char::is_alphanumeric
Alphanumeric == LowerLetters \cup UpperLetters \cup DecimalDigits
AllChars == Alphanumeric \cup Whitespace
                \cup {"!", "*", "-", ".", ":", Grin, CombiningDot}

\* char::len_utf8
len_utf8(c) ==
    CASE c = Grin -> 4
      [] c \in {CapitalIDot, CombiningDot, ArabicThree} -> 2
      [] OTHER -> 1

\* char::len_utf16: two code units outside the Basic Multilingual Plane
len_utf16(c) == IF c = Grin THEN 2 ELSE 1

\* the byte of an ASCII character, for the ordering of strings
ByteOf(c) ==
    CASE c = "-" -> 45
      [] c = "0" -> 48
      [] c = "1" -> 49
      [] c = "2" -> 50
      [] c = "3" -> 51
      [] c = "4" -> 52
      [] c = "5" -> 53

\* char::to_lowercase: the lower case of one character can be two
LowerOf(c) ==
    CASE c = "A" -> <<"a">>
      [] c = "C" -> <<"c">>
      [] c = "E" -> <<"e">>
      [] c = "I" -> <<"i">>
      [] c = "L" -> <<"l">>
      [] c = CapitalIDot -> <<"i", CombiningDot>>
      [] OTHER -> <<c>>

\* str::to_lowercase: the lower case of every character, in order (computed
\* by halves)
RECURSIVE to_lowercase(_)
to_lowercase(s) ==
    IF s = <<>> THEN <<>>
    ELSE IF Len(s) = 1 THEN LowerOf(s[1])
    ELSE to_lowercase(SubSeq(s, 1, Len(s) \div 2))
             \o to_lowercase(SubSeq(s, Len(s) \div 2 + 1, Len(s)))

\* the maximal runs of the characters of a class, left to right
Runs(s, class) ==
    LET starts == {i \in 1..Len(s) :
                      s[i] \in class /\ (i = 1 \/ s[i - 1] \notin class)}
        start(k) == CHOOSE i \in starts :
                        Cardinality({j \in starts : j < i}) = k - 1
        stop(i) == CHOOSE j \in i..Len(s) :
                       /\ \A m \in i..j : s[m] \in class
                       /\ (j = Len(s) \/ s[j + 1] \notin class)
    IN  [k \in 1..Cardinality(starts) |-> SubSeq(s, start(k), stop(start(k)))]

\* str::split_whitespace
split_whitespace(s) == Runs(s, AllChars \ Whitespace)

\* the tokenizer of a TEXT field: runs of alphanumeric characters, lower-cased
Tokenize(s) ==
    LET words == Runs(s, Alphanumeric)
    IN  [k \in 1..Len(words) |-> to_lowercase(words[k])]

\* a sum over n characters whether or not the text has as many
Utf16UnitsUncapped(s, n) ==
    n + Cardinality({i \in 1..n : i <= Len(s) /\ len_utf16(s[i]) = 2})

\* iter().take(n).map(|c| c.len_utf16()).sum() (computed by halves)
RECURSIVE Utf16Units(_, _)
Utf16Units(s, n) ==
    LET m == IF n < Len(s) THEN n ELSE Len(s)
    IN  IF m = 0 THEN 0
        ELSE IF m = 1 THEN len_utf16(s[1])
        ELSE Utf16Units(SubSeq(s, 1, m \div 2), m \div 2)
                 + Utf16Units(SubSeq(s, m \div 2 + 1, m), m - m \div 2)

\* DATE_FILENAME_REGEX, lines 31-33: \d is any decimal digit of Unicode
IsDateFileName(file_name) ==
    /\ Len(file_name) = 13
    /\ \A i \in {1, 2, 3, 4, 6, 7, 9, 10} : file_name[i] \in DecimalDigits
    /\ file_name[5] = "-" /\ file_name[8] = "-"
    /\ SubSeq(file_name, 11, 13) = <<".", "m", "d">>

\* ------------------------------------------------------------- sync_index
\* lines 133-139: the extension, lower-cased, is "md"
HasMdExtension(file_name) ==
    /\ Len(file_name) > 3
    /\ file_name[Len(file_name) - 2] = "."
    /\ to_lowercase(SubSeq(file_name, Len(file_name) - 1, Len(file_name)))
           = <<"m", "d">>

\* lines 133-142: the test an entry of the folder passes to be indexed
IsDailyNote(f) ==
    /\ HasMdExtension(Chars(f))
    /\ IsDateFileName(Chars(f))

\* lines 117-161, visit_dir: the dated files of the folder with their mtimes
\* (0 stands for a file that is not there)
ScanFolder(d) ==
    [f \in Entries |-> IF fs[d][f].live /\ IsDailyNote(f) THEN fs[d][f].mtime
                                                          ELSE 0]

DocsOfFile(docs, f) == {x \in BagToSet(docs) : x.file_path = f}

\* lines 170-186: file_path -> modified_at as read back from the stored
\* documents; the last document read of a file decides, in segment order
IndexedMaps(docs) ==
    LET seen(f) == {x.modified_at : x \in DocsOfFile(docs, f)}
        all == UNION {seen(f) : f \in Entries} \cup {0}
    IN  {m \in [Entries -> all] :
            \A f \in Entries : IF seen(f) = {} THEN m[f] = 0 ELSE m[f] \in seen(f)}

\* a sync that re-indexes modified files only and never picks up a new one
FilesToAddKnownOnly(current_files, indexed_files) ==
    {f \in Entries : /\ current_files[f] # 0
                   /\ indexed_files[f] # 0
                   /\ indexed_files[f] # current_files[f]}

\* a sync that indexes every live file again, modified or not
FilesToAddEvery(current_files, indexed_files) ==
    {f \in Entries : current_files[f] # 0}

\* lines 193-204
FilesToAdd(current_files, indexed_files) ==
    {f \in Entries : current_files[f] # 0 /\ indexed_files[f] # current_files[f]}

\* lines 193-211
FilesToRemove(current_files, indexed_files) ==
    {f \in Entries : indexed_files[f] # 0 /\ indexed_files[f] # current_files[f]}

\* documents numbered by their place among the non-blank lines
LineDocsDense(f, content, modified_at) ==
    {[file_path |-> f,
      line_number |-> Cardinality({j \in 1..i : ~IsBlank(content[j])}),
      line_content |-> content[i], modified_at |-> modified_at] :
        i \in {j \in 1..Len(content) : ~IsBlank(content[j])}}

\* lines 226-239: one document per non-blank line, numbered from 1
LineDocs(f, content, modified_at) ==
    {[file_path |-> f, line_number |-> i, line_content |-> content[i],
      modified_at |-> modified_at] :
        i \in {j \in 1..Len(content) : ~IsBlank(content[j])}}

\* lines 218-221: delete_term on file_path
DeleteFiles(docs, removed) ==
    LET keep == {x \in BagToSet(docs) : x.file_path \notin removed}
    IN  [x \in keep |-> docs[x]]

\* a sync that adds nothing of a batch in which a file cannot be read
AddedDocsAllOrNone(d, to_add, current_files, unread) ==
    IF unread # {} THEN {}
    ELSE UNION {LineDocs(f, Content(f, fs[d][f].mtime), current_files[f]) :
                   f \in {g \in to_add : fs[d][g].live}}

\* lines 224-241: the documents added for the files that can still be read
\* and whose read does not fail
AddedDocs(d, to_add, current_files, unread) ==
    UNION {LineDocs(f, Content(f, fs[d][f].mtime), current_files[f]) :
              f \in {g \in to_add \ unread : fs[d][g].live}}

\* a commit that leaves the additions of the batch out
CommittedDeletions(base, d, to_remove, to_add, current_files, unread) ==
    DeleteFiles(base, to_remove)

\* lines 213-244: what the commit leaves in the directory
CommittedDocs(base, d, to_remove, to_add, current_files, unread) ==
    DeleteFiles(base, to_remove)
        (+) SetToBag(AddedDocs(d, to_add, current_files, unread))

SyncError(op) ==
    IF op = "search" THEN "Failed to sync index"
                     ELSE "Failed to populate new index"

AfterSync(op) == IF op = "search" THEN "s_update_last" ELSE "r_update_last"

\* a caller that answers a failed sync by running sync_index once more
SyncFailedRetry(p) ==
    /\ SetProc(p, [proc[p] EXCEPT !.syncs = @ + 1, !.writer = NoWriter,
                                  !.pc = "sync_scan"])
    /\ lockHeld' = lockHeld

\* a caller that returns the error of its sync with the guard still locked
SyncFailedLeaksGuard(p) ==
    /\ SetProc(p, Returned(p, ErrResult(SyncError(proc[p].op))))
    /\ lockHeld' = lockHeld

\* the `?` after sync_index: the caller returns the error, its guard drops
SyncFailed(p) ==
    /\ SetProc(p, Returned(p, ErrResult(SyncError(proc[p].op))))
    /\ lockHeld' = DropGuard(p)

\* line 161
SyncScan(p) ==
    /\ proc[p].pc = "sync_scan"
    /\ \E fault \in FaultChoice :
        /\ Charge(fault)
        /\ IF fault
           THEN SyncFailed(p)
           ELSE /\ SetProc(p, [proc[p] EXCEPT !.files = ScanFolder(proc[p].folder),
                                              !.pc = "sync_read"])
                /\ UNCHANGED lockHeld
    /\ UNCHANGED <<queried, INDEX_CACHE, SYNC_LOCKS, LAST_SYNC_TIME, mapMutex, disk,
                   env, calls, last_call>>

\* lines 167-214: read the indexed files back and compute the differences
SyncReadIndexed(p) ==
    /\ proc[p].pc = "sync_read"
    /\ \E fault \in FaultChoice :
       \E indexed_files \in IndexedMaps(disk[Key(p)].docs) :
        /\ Charge(fault)
        /\ IF fault \/ ~disk[Key(p)].meta
           THEN SyncFailed(p)
           ELSE LET add == FilesToAdd(proc[p].files, indexed_files)
                    rem == FilesToRemove(proc[p].files, indexed_files)
                IN  /\ SetProc(p, [proc[p] EXCEPT
                            !.files_to_add = add, !.files_to_remove = rem,
                            !.pc = IF add = {} /\ rem = {}
                                   THEN AfterSync(proc[p].op) ELSE "sync_writer"])
                    /\ UNCHANGED lockHeld
    /\ UNCHANGED <<queried, INDEX_CACHE, SYNC_LOCKS, LAST_SYNC_TIME, mapMutex, disk,
                   env, calls, last_call>>

\* index.writer() takes the directory's writer lock without waiting
WriterOpens(dir) == dir.exists /\ dir.meta /\ dir.writer = NoProc

\* line 215
SyncOpenWriter(p) ==
    /\ proc[p].pc = "sync_writer"
    /\ \E fault \in FaultChoice :
        /\ Charge(fault)
        /\ IF ~fault /\ WriterOpens(disk[Key(p)])
           THEN /\ disk' = [disk EXCEPT ![Key(p)].writer = p]
                /\ SetProc(p, [proc[p] EXCEPT
                        !.writer = [open |-> TRUE, epoch |-> disk[Key(p)].epoch,
                                    empty |-> disk[Key(p)].docs = EmptyBag],
                        !.pc = "sync_commit"])
                /\ UNCHANGED lockHeld
           ELSE /\ SyncFailed(p)
                /\ UNCHANGED disk
    /\ UNCHANGED <<queried, INDEX_CACHE, SYNC_LOCKS, LAST_SYNC_TIME, mapMutex, env, calls, last_call>>

\* a writer whose directory was deleted under it can still commit only what
\* it adds, and only into a directory that exists again
Orphaned(p) == proc[p].writer.epoch # disk[Key(p)].epoch

CanCommit(p) ==
    Orphaned(p) => (disk[Key(p)].exists /\ proc[p].writer.empty)

\* lines 217-243: deletions, additions and the single commit
SyncCommit(p) ==
    /\ proc[p].pc = "sync_commit"
    /\ \E fault \in (IF Orphaned(p) THEN {FALSE, TRUE} ELSE FaultChoice) :
       \E unread \in ReadFailures(proc[p].files_to_add) :
        /\ budget' = [budget EXCEPT
                !.faults = IF fault /\ ~Orphaned(p) THEN @ - 1 ELSE @,
                !.reads = @ - Cardinality(unread)]
        /\ IF ~fault /\ CanCommit(p)
           THEN /\ disk' = [DropWriter(p, Key(p)) EXCEPT
                        ![Key(p)].meta = TRUE,
                        ![Key(p)].docs =
                            CommittedDocs(IF Orphaned(p) THEN EmptyBag ELSE @,
                                          proc[p].folder, proc[p].files_to_remove,
                                          proc[p].files_to_add, proc[p].files,
                                          unread)]
                /\ SetProc(p, [proc[p] EXCEPT !.writer = NoWriter,
                                              !.committed = TRUE,
                                              !.unread = unread,
                                              !.pc = AfterSync(proc[p].op)])
                /\ UNCHANGED lockHeld
           ELSE /\ disk' = DropWriter(p, Key(p))
                /\ SyncFailed(p)
    /\ UNCHANGED <<queried, INDEX_CACHE, SYNC_LOCKS, LAST_SYNC_TIME, mapMutex, env, calls, last_call>>

\* ----------------------------------------------------------- search_index
Limits == {1, DefaultLimit}
ContextChars == 50

Min(a, b) == IF a < b THEN a ELSE b
Max(a, b) == IF a < b THEN b ELSE a

\* the stored copies of the documents of a committed index
AllCopies(docs) ==
    {h \in BagToSet(docs) \X (1..MaxCalls) : h[2] <= docs[h[1]]}

\* the order of the documents in the index: by address
Before(a, b) ==
    LET ka == <<FileDate(a[1].file_path), a[1].line_number, a[1].modified_at, a[2]>>
        kb == <<FileDate(b[1].file_path), b[1].line_number, b[1].modified_at, b[2]>>
        i == CHOOSE j \in 1..5 : j = 5 \/ ka[j] # kb[j]
    IN  i < 5 /\ ka[i] < kb[i]

RECURSIVE Ranked(_)
Ranked(hits) ==
    IF hits = {} THEN <<>>
    ELSE LET first == CHOOSE h \in hits : \A g \in hits \ {h} : Before(h, g)
         IN  <<first>> \o Ranked(hits \ {first})

\* the documents of a committed index, in address order
Stored(docs) ==
    LET ranked == Ranked(AllCopies(docs))
    IN  [i \in 1..Len(ranked) |-> ranked[i][1]]

\* a parser that takes every word as text and rejects nothing
parse_query_lenient(query_chars) ==
    LET words == split_whitespace(query_chars)
    IN  [ok |-> TRUE,
         clauses |-> [i \in 1..Len(words) |->
                        [all |-> FALSE, terms |-> Tokenize(words[i])]]]

\* QueryParser::parse_query over the one default field line_content: the
\* words of the query are alternatives (the parser's default is disjunction);
\* "*" is the query of all documents; a word of several tokens is a phrase;
\* a word naming a field the schema does not have is rejected
parse_query(query_chars) ==
    LET words == split_whitespace(query_chars)
    IN  IF \E i \in 1..Len(words) : \E j \in 1..Len(words[i]) : words[i][j] = ":"
        THEN [ok |-> FALSE, clauses |-> <<>>]
        ELSE [ok |-> TRUE,
              clauses |-> [i \in 1..Len(words) |->
                  IF words[i] = <<"*">> THEN [all |-> TRUE, terms |-> <<>>]
                  ELSE [all |-> FALSE, terms |-> Tokenize(words[i])]]]

\* a document matches a clause: every document, or the clause's tokens in a
\* row among the tokens of the line
ClauseMatches(clause, line_chars) ==
    LET tokens == Tokenize(line_chars)
        n == Len(clause.terms)
    IN  \/ clause.all
        \/ /\ n > 0
           /\ \E i \in 1..Len(tokens) :
                 i + n - 1 <= Len(tokens) /\ SubSeq(tokens, i, i + n - 1) = clause.terms

\* searcher.search: the addresses of the documents some clause matches
Hits(stored, clauses) ==
    {i \in 1..Len(stored) :
        \E c \in 1..Len(clauses) :
            ClauseMatches(clauses[c], Chars(stored[i].line_content))}

\* TopDocs::with_limit(limit): the first limit hits; the scores of the hits
\* are taken as equal, which leaves them in address order
TopDocs(hits, limit) ==
    LET nth(k) == CHOOSE i \in hits : Cardinality({j \in hits : j < i}) = k - 1
    IN  [k \in 1..Min(limit, Cardinality(hits)) |-> nth(k)]

\* lines 314-330: where the term stands in the lower-cased line, left to
\* right without overlap, as (start, end) counted in characters from 0
RECURSIVE Occurrences(_, _, _)
Occurrences(line_lower_chars, term_chars, i) ==
    LET at == {j \in i..(Len(line_lower_chars) - Len(term_chars)) :
                  SubSeq(line_lower_chars, j + 1, j + Len(term_chars)) = term_chars}
        first == CHOOSE j \in at : \A m \in at : j <= m
    IN  IF term_chars = <<>> \/ at = {} THEN <<>>
        ELSE <<<<first, first + Len(term_chars)>>>>
                 \o Occurrences(line_lower_chars, term_chars, first + Len(term_chars))

\* lines 308-331: term by term, in the order of the query
RECURSIVE match_positions(_, _)
match_positions(line_lower_chars, query_terms) ==
    IF query_terms = <<>> THEN <<>>
    ELSE Occurrences(line_lower_chars, Head(query_terms), 0)
             \o match_positions(line_lower_chars, Tail(query_terms))

\* lines 280-380: the SearchMatch of a retrieved document
MatchOf(doc, query_terms) ==
    LET line_chars == Chars(doc.line_content)
        positions == match_positions(to_lowercase(line_chars), query_terms)
        span == IF positions # <<>> THEN positions[1]
                ELSE <<0, Min(Len(line_chars), ContextChars)>>
        context_start_char_idx == Max(span[1] - ContextChars, 0)
        context_end_char_idx == Min(span[2] + ContextChars, Len(line_chars))
        context_start == IF context_start_char_idx < Len(line_chars)
                         THEN context_start_char_idx ELSE 0
        context_snippet == SubSeq(line_chars, context_start + 1, context_end_char_idx)
        relative_match_start == Max(span[1] - context_start_char_idx, 0)
        relative_match_end == Max(span[2] - context_start_char_idx, 0)
    IN  [file_path |-> doc.file_path, line_number |-> doc.line_number,
         char_start |-> Utf16Units(context_snippet, relative_match_start),
         char_end |-> Utf16Units(context_snippet, relative_match_end),
         context_snippet |-> context_snippet]

RECURSIVE Utf8Len(_)
Utf8Len(s) == IF s = <<>> THEN 0 ELSE len_utf8(Head(s)) + Utf8Len(Tail(s))

\* str::is_char_boundary
IsCharBoundary(s, byte) ==
    \E n \in 0..Len(s) : Utf8Len(SubSeq(s, 1, n)) = byte

\* &s[0..byte], which panics when byte is inside a character
ByteSlice(s, byte) ==
    SubSeq(s, 1, CHOOSE n \in 0..Len(s) : Utf8Len(SubSeq(s, 1, n)) = byte)

NoDate == [kind |-> "None", date |-> <<>>]
SomeDate(d) == [kind |-> "Some", date |-> d]
SlicePanics == [kind |-> "panic", date |-> <<>>]

\* lines 385-393
extract_date(path) ==
    LET file_name == Chars(path)
    IN  IF ~IsDateFileName(file_name) THEN NoDate
        ELSE IF ~IsCharBoundary(file_name, 10) THEN SlicePanics
        ELSE SomeDate(ByteSlice(file_name, 10))

\* String::cmp on ASCII strings: a is less than b
StrLess(a, b) ==
    \E i \in 1..Min(Len(a), Len(b)) + 1 :
        /\ \A j \in 1..(i - 1) : a[j] = b[j]
        /\ IF i <= Min(Len(a), Len(b)) THEN ByteOf(a[i]) < ByteOf(b[i])
           ELSE Len(a) < Len(b)

\* lines 395-404: the ordering the comparator returns for (a, b)
CompareByDate(a, b) ==
    LET date_a == extract_date(a.file_path)
        date_b == extract_date(b.file_path)
    IN  CASE date_a.kind = "Some" /\ date_b.kind = "Some" ->
                IF StrLess(date_b.date, date_a.date) THEN "Less"
                ELSE IF StrLess(date_a.date, date_b.date) THEN "Greater"
                ELSE "Equal"
          [] date_a.kind = "Some" /\ date_b.kind = "None" -> "Less"
          [] date_a.kind = "None" /\ date_b.kind = "Some" -> "Greater"
          [] OTHER -> "Equal"

\* lines 383-406: sort_by is stable; what compares Less comes first
RECURSIVE SortByDate(_)
SortByDate(matches) ==
    IF matches = <<>> THEN <<>>
    ELSE LET newest == CHOOSE i \in 1..Len(matches) :
                 /\ \A j \in 1..Len(matches) :
                        CompareByDate(matches[j], matches[i]) # "Less"
                 /\ \A j \in 1..(i - 1) :
                        CompareByDate(matches[i], matches[j]) = "Less"
             rest == [j \in 1..(Len(matches) - 1) |->
                         IF j < newest THEN matches[j] ELSE matches[j + 1]]
         IN  <<matches[newest]>> \o SortByDate(rest)

\* the comparator runs on every element of a list of two or more
SortPanics(matches) ==
    /\ Len(matches) >= 2
    /\ \E i \in 1..Len(matches) : extract_date(matches[i].file_path).kind = "panic"

Failed(how) == [status |-> how, matches |-> <<>>, total_results |-> 0]

\* lines 250-415; stored is the committed index in address order
search_index(stored, query_str, limit, sort_by_date) ==
    LET query == parse_query(Chars(query_str))
        query_terms == split_whitespace(to_lowercase(Chars(query_str)))
        top_docs == TopDocs(Hits(stored, query.clauses), limit)
        found == [i \in 1..Len(top_docs) |-> MatchOf(stored[top_docs[i]], query_terms)]
        matches == IF sort_by_date THEN SortByDate(found) ELSE found
    IN  IF ~query.ok THEN Failed("Err")
        ELSE IF limit = 0 THEN Failed("panic")
        ELSE IF sort_by_date /\ SortPanics(found) THEN Failed("panic")
        ELSE [status |-> "Ok", matches |-> matches, total_results |-> Len(matches)]


\* the documents of an index that is level with the folder: one per
\* non-blank line of every live file the scan yields
LiveDocs(d) ==
    SetToBag(UNION {LineDocs(f, Content(f, fs[d][f].mtime), fs[d][f].mtime) :
                       f \in {g \in Entries : ScanFolder(d)[g] # 0}})

\* ---------------------------------------------------- search_markdown_files
\* lines 438-445: the folder's entry of SYNC_LOCKS, inserted when missing
SearchSyncLockEntry(p) ==
    /\ proc[p].pc = "s_lock_entry"
    /\ mapMutex.locks = NoProc
    /\ LET entry == IF SYNC_LOCKS[Key(p)] = NoLock THEN proc[p].id
                    ELSE SYNC_LOCKS[Key(p)]
       IN  /\ SYNC_LOCKS' = [SYNC_LOCKS EXCEPT ![Key(p)] = entry]
           /\ SetProc(p, [proc[p] EXCEPT !.sync_lock = entry, !.pc = "s_try_lock"])
    /\ UNCHANGED <<queried, INDEX_CACHE, LAST_SYNC_TIME, mapMutex, lockHeld, disk,
                   env, calls, last_call, budget>>

\* the same step with lock() in place of try_lock()
SearchLockWaits(p) ==
    /\ proc[p].pc = "s_try_lock"
    /\ lockHeld[proc[p].sync_lock] = NoProc
    /\ lockHeld' = [lockHeld EXCEPT ![proc[p].sync_lock] = p]
    /\ SetProc(p, [proc[p] EXCEPT !.pc = "s_should_sync"])
    /\ UNCHANGED <<queried, INDEX_CACHE, SYNC_LOCKS, LAST_SYNC_TIME, mapMutex, disk,
                   env, calls, last_call, budget>>

\* line 448: try_lock never waits
SearchTryLock(p) ==
    /\ proc[p].pc = "s_try_lock"
    /\ IF lockHeld[proc[p].sync_lock] = NoProc
       THEN /\ lockHeld' = [lockHeld EXCEPT ![proc[p].sync_lock] = p]
            /\ SetProc(p, [proc[p] EXCEPT !.pc = "s_should_sync"])
       ELSE /\ SetProc(p, [proc[p] EXCEPT !.skip = "busy", !.pc = "s_query"])
            /\ UNCHANGED lockHeld
    /\ UNCHANGED <<queried, INDEX_CACHE, SYNC_LOCKS, LAST_SYNC_TIME, mapMutex, disk,
                   env, calls, last_call, budget>>

\* a check that lets every search that holds the lock sync
should_sync_always(last_time, t) == TRUE

\* lines 453-459
should_sync(last_time, t) ==
    IF last_time # NoTime THEN t - last_time >= DebounceSecs ELSE TRUE

\* the same step recording the time of a sync that is skipped
SearchShouldSyncRecordsSkip(p) ==
    /\ proc[p].pc = "s_should_sync"
    /\ mapMutex.last = NoProc
    /\ IF should_sync(LAST_SYNC_TIME[Key(p)], now)
       THEN /\ SetProc(p, [proc[p] EXCEPT !.syncs = @ + 1, !.pc = "sync_scan"])
            /\ UNCHANGED <<lockHeld, LAST_SYNC_TIME>>
       ELSE /\ SetProc(p, [proc[p] EXCEPT !.skip = "debounced", !.pc = "s_query"])
            /\ lockHeld' = DropGuard(p)
            /\ LAST_SYNC_TIME' = [LAST_SYNC_TIME EXCEPT ![Key(p)] = now]
    /\ UNCHANGED <<queried, INDEX_CACHE, SYNC_LOCKS, mapMutex, disk,
                   env, calls, last_call, budget>>

\* the same step with the guard of LAST_SYNC_TIME kept while the sync runs
SearchShouldSyncKeepsGuard(p) ==
    /\ proc[p].pc = "s_should_sync"
    /\ mapMutex.last = NoProc
    /\ IF should_sync(LAST_SYNC_TIME[Key(p)], now)
       THEN /\ SetProc(p, [proc[p] EXCEPT !.syncs = @ + 1, !.pc = "sync_scan"])
            /\ mapMutex' = [mapMutex EXCEPT !.last = p]
            /\ UNCHANGED lockHeld
       ELSE /\ SetProc(p, [proc[p] EXCEPT !.skip = "debounced", !.pc = "s_query"])
            /\ lockHeld' = DropGuard(p)
            /\ UNCHANGED mapMutex
    /\ UNCHANGED <<queried, INDEX_CACHE, SYNC_LOCKS, LAST_SYNC_TIME, disk,
                   env, calls, last_call, budget>>

\* lines 450-462, and line 471 when the sync is skipped
SearchShouldSync(p) ==
    /\ proc[p].pc = "s_should_sync"
    /\ mapMutex.last = NoProc
    /\ IF should_sync(LAST_SYNC_TIME[Key(p)], now)
       THEN /\ SetProc(p, [proc[p] EXCEPT !.syncs = @ + 1, !.pc = "sync_scan"])
            /\ UNCHANGED lockHeld
       ELSE /\ SetProc(p, [proc[p] EXCEPT !.skip = "debounced", !.pc = "s_query"])
            /\ lockHeld' = DropGuard(p)
    /\ UNCHANGED <<queried, INDEX_CACHE, SYNC_LOCKS, LAST_SYNC_TIME, mapMutex, disk,
                   env, calls, last_call, budget>>

\* the same step recording the time only when the sync committed changes
SearchUpdateLastSyncIfCommitted(p) ==
    /\ proc[p].pc = "s_update_last"
    /\ mapMutex.last = NoProc
    /\ LAST_SYNC_TIME' = IF proc[p].committed
                         THEN [LAST_SYNC_TIME EXCEPT ![Key(p)] = now]
                         ELSE LAST_SYNC_TIME
    /\ lockHeld' = DropGuard(p)
    /\ SetProc(p, [proc[p] EXCEPT !.skip = "synced", !.pc = "s_query"])
    /\ UNCHANGED <<queried, INDEX_CACHE, SYNC_LOCKS, mapMutex, disk, env, calls, last_call, budget>>

\* lines 467-471
SearchUpdateLastSync(p) ==
    /\ proc[p].pc = "s_update_last"
    /\ mapMutex.last = NoProc
    /\ LAST_SYNC_TIME' = [LAST_SYNC_TIME EXCEPT ![Key(p)] = now]
    /\ lockHeld' = DropGuard(p)
    /\ SetProc(p, [proc[p] EXCEPT !.skip = "synced", !.pc = "s_query"])
    /\ UNCHANGED <<queried, INDEX_CACHE, SYNC_LOCKS, mapMutex, disk, env, calls, last_call, budget>>

\* lines 475-479: the query reads the committed documents; what it returns
\* for the call's query, limit and order is search_index of them
SearchQuery(p) ==
    /\ proc[p].pc = "s_query"
    /\ \E fault \in FaultChoice :
        /\ Charge(fault)
        /\ SetProc(p, [Returned(p,
              IF fault \/ ~disk[Key(p)].meta
              THEN ErrResult("Search failed")
              ELSE OkResult(disk[Key(p)].docs)) EXCEPT !.queries = @ + 1])
    /\ UNCHANGED <<queried, shared, env, calls, last_call>>

\* ----------------------------------------------------- rebuild_search_index
\* an eviction that clears the cache of every folder
RebuildEvictCacheOfAll(p) ==
    /\ proc[p].pc = "r_evict_cache"
    /\ mapMutex.cache = NoProc
    /\ mapMutex' = [mapMutex EXCEPT !.cache = p]
    /\ INDEX_CACHE' = [k \in Keys |-> NoIndex]
    /\ SetProc(p, [proc[p] EXCEPT !.pc = "r_evict_locks"])
    /\ UNCHANGED <<queried, SYNC_LOCKS, LAST_SYNC_TIME, lockHeld, disk, env, calls, last_call, budget>>

\* lines 497-498
RebuildEvictCache(p) ==
    /\ proc[p].pc = "r_evict_cache"
    /\ mapMutex.cache = NoProc
    /\ mapMutex' = [mapMutex EXCEPT !.cache = p]
    /\ INDEX_CACHE' = [INDEX_CACHE EXCEPT ![Key(p)] = NoIndex]
    /\ SetProc(p, [proc[p] EXCEPT !.pc = "r_evict_locks"])
    /\ UNCHANGED <<queried, SYNC_LOCKS, LAST_SYNC_TIME, lockHeld, disk, env, calls, last_call, budget>>

\* lines 500-501, the cache mutex still held
RebuildEvictLocks(p) ==
    /\ proc[p].pc = "r_evict_locks"
    /\ mapMutex.locks = NoProc
    /\ mapMutex' = [mapMutex EXCEPT !.locks = p]
    /\ SYNC_LOCKS' = [SYNC_LOCKS EXCEPT ![Key(p)] = NoLock]
    /\ SetProc(p, [proc[p] EXCEPT !.pc = "r_evict_last"])
    /\ UNCHANGED <<queried, INDEX_CACHE, LAST_SYNC_TIME, lockHeld, disk, env, calls, last_call, budget>>

\* the same step with the three guards kept to the end of the function
RebuildEvictLastSyncKeepsGuards(p) ==
    /\ proc[p].pc = "r_evict_last"
    /\ mapMutex.last = NoProc
    /\ mapMutex' = [mapMutex EXCEPT !.last = p]
    /\ LAST_SYNC_TIME' = [LAST_SYNC_TIME EXCEPT ![Key(p)] = NoTime]
    /\ SetProc(p, [proc[p] EXCEPT !.pc = "r_delete"])
    /\ UNCHANGED <<queried, INDEX_CACHE, SYNC_LOCKS, lockHeld, disk, env, calls, last_call, budget>>

\* lines 503-505: the last removal, then the three guards drop
RebuildEvictLastSync(p) ==
    /\ proc[p].pc = "r_evict_last"
    /\ mapMutex.last = NoProc
    /\ mapMutex' = [cache |-> NoProc, locks |-> NoProc, last |-> NoProc]
    /\ LAST_SYNC_TIME' = [LAST_SYNC_TIME EXCEPT ![Key(p)] = NoTime]
    /\ SetProc(p, [proc[p] EXCEPT !.pc = "r_delete"])
    /\ UNCHANGED <<queried, INDEX_CACHE, SYNC_LOCKS, lockHeld, disk, env, calls, last_call, budget>>

\* lines 508-511: remove_dir_all takes the index, its meta.json and the
\* writer lock file with it
RebuildDeleteDir(p) ==
    /\ proc[p].pc = "r_delete"
    /\ \E fault \in (IF disk[Key(p)].exists THEN FaultChoice ELSE {FALSE}) :
        /\ Charge(fault)
        /\ IF fault
           THEN /\ SetProc(p, Returned(p, ErrResult("Failed to delete index directory")))
                /\ UNCHANGED disk
           ELSE /\ disk' = [disk EXCEPT ![Key(p)] =
                        IF @.exists THEN [EmptyDir EXCEPT !.epoch = disk[Key(p)].epoch + 1]
                        ELSE @]
                /\ SetProc(p, [proc[p] EXCEPT
                        !.deleted = IF disk[Key(p)].exists
                                    THEN disk[Key(p)].epoch + 1
                                    ELSE disk[Key(p)].epoch,
                        !.pc = "goc_check"])
    /\ UNCHANGED <<queried, INDEX_CACHE, SYNC_LOCKS, LAST_SYNC_TIME, mapMutex, lockHeld,
                   env, calls, last_call>>

\* lines 518-523: a new lock object replaces the folder's entry
RebuildNewLock(p) ==
    /\ proc[p].pc = "r_new_lock"
    /\ mapMutex.locks = NoProc
    /\ SYNC_LOCKS' = [SYNC_LOCKS EXCEPT ![Key(p)] = proc[p].id]
    /\ SetProc(p, [proc[p] EXCEPT !.sync_lock = proc[p].id, !.pc = "r_lock"])
    /\ UNCHANGED <<queried, INDEX_CACHE, LAST_SYNC_TIME, mapMutex, lockHeld, disk,
                   env, calls, last_call, budget>>

\* line 526: lock() waits for the guard
RebuildLock(p) ==
    /\ proc[p].pc = "r_lock"
    /\ lockHeld[proc[p].sync_lock] = NoProc
    /\ lockHeld' = [lockHeld EXCEPT ![proc[p].sync_lock] = p]
    /\ SetProc(p, [proc[p] EXCEPT !.syncs = @ + 1, !.pc = "sync_scan"])
    /\ UNCHANGED <<queried, INDEX_CACHE, SYNC_LOCKS, LAST_SYNC_TIME, mapMutex, disk,
                   env, calls, last_call, budget>>

\* lines 530-537
RebuildUpdateLastSync(p) ==
    /\ proc[p].pc = "r_update_last"
    /\ mapMutex.last = NoProc
    /\ LAST_SYNC_TIME' = [LAST_SYNC_TIME EXCEPT ![Key(p)] = now]
    /\ lockHeld' = DropGuard(p)
    /\ SetProc(p, Returned(p, OkResult(disk[Key(p)].docs)))
    /\ UNCHANGED <<queried, INDEX_CACHE, SYNC_LOCKS, mapMutex, disk, env, calls, last_call, budget>>

\* ------------------------------------------------------------ specification
Step(p) ==
    \/ GetOrCreateCheckCache(p)
    \/ GetOrCreateEnsureDir(p)
    \/ GetOrCreateOpen(p)
    \/ GetOrCreateStore(p)
    \/ SyncScan(p)
    \/ SyncReadIndexed(p)
    \/ SyncOpenWriter(p)
    \/ SyncCommit(p)
    \/ SearchSyncLockEntry(p)
    \/ SearchTryLock(p)
    \/ SearchShouldSync(p)
    \/ SearchUpdateLastSync(p)
    \/ SearchQuery(p)
    \/ RebuildEvictCache(p)
    \/ RebuildEvictLocks(p)
    \/ RebuildEvictLastSync(p)
    \/ RebuildDeleteDir(p)
    \/ RebuildNewLock(p)
    \/ RebuildLock(p)
    \/ RebuildUpdateLastSync(p)

\* any number of calls in flight on one folder
Next ==
    \/ \E p \in Procs, d \in Watched : StartSearch(p, d)
    \/ \E p \in Procs, d \in Watched : StartRebuild(p, d)
    \/ \E p \in Procs : Step(p)
    \/ \E p \in Procs : Return(p)
    \/ \E d \in Watched, f \in Files : WriteFile(d, f)
    \/ \E d \in Watched, f \in Files : RemoveFile(d, f)
    \/ Tick

Spec == Init /\ [][Next]_vars

\* The calls alone, on any folders, each on a thread that is scheduled again
\* and again while it can take a step.
FairNext ==
    \/ \E p \in Procs, d \in Folders : StartSearch(p, d)
    \/ \E p \in Procs, d \in Folders : StartRebuild(p, d)
    \/ \E p \in Procs : Step(p)
    \/ \E p \in Procs : Return(p)
    \/ Tick

FairSpec ==
    /\ Init
    /\ [][FairNext]_vars
    /\ \A p \in Procs : WF_vars(Step(p))

\* one call at a time, no I/O error; the files change and the clock moves
\* between the calls
AllIdle == \A p \in Procs : proc[p].pc = "idle"

SeqInit ==
    /\ Fresh
    /\ budget = [calls |-> MaxSeqCalls, faults |-> 0, fsOps |-> MaxSeqFsOps,
                 reads |-> 0]

SeqNext ==
    \/ \E p \in Procs, d \in Watched : AllIdle /\ StartSearch(p, d)
    \/ \E p \in Procs, d \in Watched : AllIdle /\ StartRebuild(p, d)
    \/ \E p \in Procs : Step(p)
    \/ \E p \in Procs : ReturnNoted(p)
    \/ \E d \in Watched, f \in Files : AllIdle /\ WriteFile(d, f)
    \/ \E d \in Watched, f \in Files : AllIdle /\ RemoveFile(d, f)
    \/ AllIdle /\ Tick

SeqSpec == SeqInit /\ [][SeqNext]_vars

\* The same runs, shorter, in which fs::read_to_string can fail for a file of
\* a batch.
ReadInit ==
    /\ Fresh
    /\ budget = [calls |-> MaxReadCalls, faults |-> 0, fsOps |-> MaxReadFsOps,
                 reads |-> MaxReadFaults]

ReadSpec == ReadInit /\ [][SeqNext]_vars

\* The query alone: search_index on an index of any few documents, for any
\* query, limit and order.
Documents ==
    {<<"2024-01-01.md", "alice">>, <<"2024-01-01.md", "alice paris">>,
     <<"2024-01-05.md", "Alice">>, <<"2024-01-05.md", "zed">>,
     <<"2024-01-05.md", "<1F600> alice">>,
     <<"2024-01-01.md", "<1F600><0130> alice">>,
     <<"notes.md", "alice">>, <<"2024-01-0<0663>.md", "alice">>,
     <<"2024-01-01.md", ".{60}alice.{60}">>,
     <<"2024-01-05.md", "<0130>.{59}alice.{60}">>}
Queries == Terms \cup {"alice paris", "paris alice", "ALICE", "", " ", "!", "*",
                        "bob", "x:alice"}
QueryLimits == {0} \cup Limits

\* lines 228-238: a document as add_document stores it
IndexDocument(path, line) ==
    /\ ~answer.asked
    /\ Len(segment) < MaxDocs
    /\ segment' = Append(segment, [file_path |-> path,
                                    line_number |-> Len(segment) + 1,
                                    line_content |-> line, modified_at |-> 1])
    /\ UNCHANGED <<shared, env, proc, calls, last_call, budget, answer>>

\* lines 476-479: what search_markdown_files returns for the outcome of
\* search_index; a panic ends the call without a return value
ReturnedFor(found) ==
    CASE found.status = "Ok" -> "Ok"
      [] found.status = "Err" -> "Search failed"
      [] OTHER -> "panic"

\* lines 425 and 475-479
SearchIndexCall(query, limit, sort_by_date) ==
    /\ ~answer.asked
    /\ LET found == search_index(segment, query, limit, sort_by_date)
       IN  answer' = [asked |-> TRUE, query |-> query, limit |-> limit,
                      sort_by_date |-> sort_by_date, found |-> found,
                      returned |-> ReturnedFor(found)]
    /\ UNCHANGED <<shared, env, proc, calls, last_call, budget, segment>>

QueryInit ==
    /\ Fresh
    /\ budget = [calls |-> 0, faults |-> 0, fsOps |-> 0, reads |-> 0]

QueryNext ==
    \/ \E doc \in Documents : IndexDocument(doc[1], doc[2])
    \/ \E query \in Queries, limit \in QueryLimits, sort_by_date \in BOOLEAN :
           SearchIndexCall(query, limit, sort_by_date)

QuerySpec == QueryInit /\ [][QueryNext]_vars

TypeOK ==
    /\ \A p \in Procs : proc[p].pc \in
          {"idle", "done", "goc_check", "goc_dir", "goc_open", "goc_store",
           "s_lock_entry", "s_try_lock", "s_should_sync", "s_update_last",
           "s_query", "sync_scan", "sync_read", "sync_writer", "sync_commit",
           "r_evict_cache", "r_evict_locks", "r_evict_last", "r_delete",
           "r_new_lock", "r_lock", "r_update_last"}
    /\ now \in 0..MaxTime

\* ------------------------------------------------------------------ claims
InSync(p) ==
    proc[p].pc \in {"sync_scan", "sync_read", "sync_writer", "sync_commit"}

Finished(p, op) == proc[p].pc = "done" /\ proc[p].op = op

Ok(call) == call.result.status = "ok"

NoRebuildYet == \A i \in 1..Len(calls) : calls[i] # "rebuild"

NoFaultYet == budget.faults = MaxFaults

\* no file of the folder changed since the call started
FilesUnchangedSince(call) == call.started.fsOps = budget.fsOps

\* C1: at most one execution of sync_index is in flight for a folder at any
\* moment, whatever searches and rebuilds are interleaved.
C1_OneSyncInFlight ==
    \A p, q \in Procs :
        (p # q /\ InSync(p) /\ InSync(q)) => Key(p) # Key(q)

\* the index handles of a folder that calls hold or the cache stores
Handles(k) ==
    ({proc[p].index : p \in {q \in Procs : proc[q].op # "none" /\ Key(q) = k}}
        \cup {INDEX_CACHE[k]}) \ {NoIndex}

\* C2: concurrent get_or_create_index calls for one folder end up with one
\* and the same handle: the folder's index is never opened or created twice.
C2_OneHandlePerFolder ==
    NoRebuildYet => \A k \in Keys : Cardinality(Handles(k)) <= 1

\* C3: a search is never held up at the sync lock, and a search that found
\* the lock taken by a search that is syncing returns Ok, not an error.
C3_SearchNeverWaits ==
    \A p \in Procs :
        /\ proc[p].pc = "s_try_lock" => ENABLED SearchTryLock(p)
        /\ (Finished(p, "search") /\ proc[p].skip = "busy"
                /\ NoRebuildYet /\ NoFaultYet) => Ok(proc[p])

\* a search has returned Ok without syncing while another search of the
\* folder is inside sync_index
C3_SkippedWhileSyncing ==
    \E p, q \in Procs :
        /\ p # q /\ Key(p) = Key(q)
        /\ Finished(p, "search") /\ proc[p].skip = "busy" /\ Ok(proc[p])
        /\ proc[q].op = "search" /\ InSync(q)

\* C4: a search whose opportunistic sync fails does not fail: it never
\* returns the sync's error.
C4_SyncFailureNotFatal ==
    \A p \in Procs :
        Finished(p, "search") => proc[p].result.status # SyncError("search")

\* C5: the sync of a rebuild and the opportunistic sync of a search of the
\* same folder never run at the same time, and no two index writers are
\* open on one index directory.
C5_RebuildExcludesSearchSync ==
    \A p, q \in Procs :
        (p # q /\ Key(p) = Key(q)) =>
            /\ ~(proc[p].op = "rebuild" /\ InSync(p)
                    /\ proc[q].op = "search" /\ InSync(q))
            /\ ~(proc[p].writer.open /\ proc[q].writer.open)

\* C6: when a rebuild returns Ok, the committed index holds exactly one
\* document per non-blank line of every live dated file, and nothing else.
C6_RebuildLeavesIndexComplete ==
    \A p \in Procs :
        (Finished(p, "rebuild") /\ Ok(proc[p]) /\ FilesUnchangedSince(proc[p]))
            => proc[p].result.seen = LiveDocs(proc[p].folder)

\* C7: a rebuild that returns an error leaves no cache entry behind for the
\* index handle it had registered.
C7_FailedRebuildLeavesNoCacheEntry ==
    \A p \in Procs :
        (Finished(p, "rebuild") /\ ~Ok(proc[p]))
            => INDEX_CACHE[Key(p)] \notin {proc[p].index} \ {NoIndex}

UniqueFile == "2024-01-05.md"
UniqueTerm == "zed"

FilesIn(matches) == {matches[i].file_path : i \in 1..Len(matches)}

\* the call before this one was a rebuild of the folder that returned Ok,
\* and no file has changed since it started
AfterRebuild(p) ==
    /\ last_call.call.op = "rebuild"
    /\ last_call.call.folder = proc[p].folder
    /\ Ok(last_call.call)
    /\ FilesUnchangedSince(last_call.call)

\* C8: a search for a term that only one file holds, issued when the
\* debounce window has elapsed or right after a successful rebuild, returns
\* a line of that file if the file is there; after the file is removed and
\* the index rebuilt, no search returns a line of it.
C8_FreshnessReached ==
    \A p \in Procs :
        (Finished(p, "search") /\ Ok(proc[p])
                /\ (proc[p].started.due \/ AfterRebuild(p))) =>
            \A limit \in Limits, sort_by_date \in BOOLEAN :
                /\ fs[proc[p].folder][UniqueFile].live =>
                     UniqueFile \in FilesIn(search_index(Stored(proc[p].result.seen),
                            UniqueTerm, limit, sort_by_date).matches)
                /\ (~fs[proc[p].folder][UniqueFile].live /\ AfterRebuild(p)) =>
                     \A q \in Terms :
                        UniqueFile \notin FilesIn(search_index(Stored(proc[p].result.seen),
                            q, limit, sort_by_date).matches)

\* a search has found the file that was added after the sync of the search
\* before it
C8_NewFileFound ==
    \E p \in Procs :
        /\ Finished(p, "search") /\ Ok(proc[p]) /\ proc[p].started.due
        /\ last_call.call.op = "search" /\ last_call.call.skip = "synced"
        /\ DocsOfFile(last_call.call.result.seen, UniqueFile) = {}
        /\ DocsOfFile(proc[p].result.seen, UniqueFile) # {}

SameAnswers(docs1, docs2) ==
    \A q \in Terms, limit \in Limits, sort_by_date \in BOOLEAN :
        search_index(Stored(docs1), q, limit, sort_by_date)
            = search_index(Stored(docs2), q, limit, sort_by_date)

\* this search follows a search of the same folder at once: no call and no
\* file change in between, and less than two ticks of the clock
Successive(p) ==
    /\ Finished(p, "search") /\ Ok(proc[p])
    /\ last_call.call.op = "search" /\ Ok(last_call.call)
    /\ last_call.call.folder = proc[p].folder
    /\ FilesUnchangedSince(last_call.call)
    /\ now - last_call.at <= 1

C10_OneDocPerLine ==
    \A k \in Keys :
        \A x \in BagToSet(disk[k].docs) :
            /\ disk[k].docs[x] = 1
            /\ ~IsBlank(x.line_content)
            /\ \A y \in BagToSet(disk[k].docs) :
                  (y.file_path = x.file_path /\ y.line_number = x.line_number)
                      => y = x

\* ---------------------------------------------------- claims on the query
Asked == answer.asked
Answered == answer.asked /\ answer.returned = "Ok"
Matches == answer.found.matches

\* the line of the index a match was made from
LineOf(m) == Chars(segment[m.line_number].line_content)

QueryWords == split_whitespace(Chars(answer.query))

\* the query is words of letters and digits only
PlainWords ==
    \A w \in 1..Len(QueryWords) :
        \A i \in 1..Len(QueryWords[w]) : QueryWords[w][i] \in Alphanumeric

\* the word is one of the words of the line, whatever the case
HasWord(line_chars, word) ==
    \E t \in 1..Len(Tokenize(line_chars)) :
        Tokenize(line_chars)[t] = to_lowercase(word)

HasAllWords(line_chars) ==
    \A w \in 1..Len(QueryWords) : HasWord(line_chars, QueryWords[w])

\* C11: a line is returned for a query of several words only if it holds
\* every one of them, and words match whatever their case: a line that
\* holds them all in another case is returned.
C11_AllTermsRequired ==
    (Answered /\ PlainWords) =>
        /\ \A i \in 1..Len(Matches) : HasAllWords(LineOf(Matches[i]))
        /\ \A d \in 1..Len(segment) :
              (QueryWords # <<>> /\ HasAllWords(Chars(segment[d].line_content))
                    /\ answer.limit >= Len(segment)) =>
                  \E i \in 1..Len(Matches) : Matches[i].line_number = d

\* the lines of the index that match the query
Matching ==
    Hits(segment, parse_query(Chars(answer.query)).clauses)

\* C12: no more than limit matches are returned, and total_results is the
\* number of indexed lines that match the query, counted before the cut to
\* limit.
C12_TotalBeforeTruncation ==
    (Answered /\ PlainWords) =>
        /\ Len(Matches) <= answer.limit
        /\ answer.found.total_results = Cardinality(Matching)

\* the queries the parser rejects
RejectedQueries == {"x:alice"}

\* C13: a search with limit 0, and a search whose query matches no line,
\* return Ok with total_results 0 and no matches.
C13_NothingFoundIsOk ==
    (Asked /\ PlainWords /\ (answer.limit = 0 \/ Matching = {})) =>
        /\ answer.returned = "Ok"
        /\ answer.found.total_results = 0
        /\ Matches = <<>>

\* the date a file name carries, 0 for a name that carries none
DateRank(path) ==
    CASE path = "2024-01-01.md" -> 20240101
      [] path = "2024-01-05.md" -> 20240105
      [] OTHER -> 0

\* what the same query returns without date ordering
Unsorted ==
    search_index(segment, answer.query, answer.limit, FALSE).matches

PlaceIn(matches, m) ==
    CHOOSE i \in 1..Len(matches) : matches[i].line_number = m.line_number

\* C14: with date ordering the matches come newest date first, the matches
\* of undated files last, matches that compare equal in their prior order,
\* and the sort fails on no input.
C14_NewestFirstStable ==
    (Asked /\ PlainWords /\ answer.sort_by_date /\ answer.limit > 0) =>
        /\ answer.returned = "Ok"
        /\ \A i, j \in 1..Len(Matches) :
              i < j =>
                /\ DateRank(Matches[i].file_path) >= DateRank(Matches[j].file_path)
                /\ DateRank(Matches[i].file_path) = DateRank(Matches[j].file_path)
                      => PlaceIn(Unsorted, Matches[i]) < PlaceIn(Unsorted, Matches[j])

\* C15: a query without any term (empty, blanks only, punctuation only)
\* returns Ok with no matches.
C15_NoTermsNoMatches ==
    (Asked /\ Tokenize(Chars(answer.query)) = <<>> /\ answer.limit > 0) =>
        /\ answer.returned = "Ok"
        /\ Matches = <<>>

\* the length of a text in UTF-16 code units
Utf16Length(s) == Len(s) + Cardinality({i \in 1..Len(s) : s[i] = Grin})

QueryTerms == split_whitespace(to_lowercase(Chars(answer.query)))

IsQueryTerm(s) == \E t \in 1..Len(QueryTerms) : QueryTerms[t] = to_lowercase(s)

\* a term of the query stands in the line after a character outside the
\* Basic Multilingual Plane
TermAfterAstral(line_chars) ==
    \E a, b \in 1..Len(line_chars) :
        /\ a <= b /\ IsQueryTerm(SubSeq(line_chars, a, b))
        /\ \E g \in 1..(a - 1) : line_chars[g] = Grin

\* the code units char_start..char_end of the snippet are a term of the query
HighlightsTerm(m) ==
    \E a, b \in 1..Len(m.context_snippet) :
        /\ a <= b
        /\ Utf16Length(SubSeq(m.context_snippet, 1, a - 1)) = m.char_start
        /\ Utf16Length(SubSeq(m.context_snippet, 1, b)) = m.char_end
        /\ IsQueryTerm(SubSeq(m.context_snippet, a, b))

\* C16: for a line with a character outside the Basic Multilingual Plane
\* before the match, char_start and char_end are the UTF-16 offsets of the
\* match in context_snippet.
C16_Utf16Offsets ==
    Answered =>
        \A i \in 1..Len(Matches) :
            TermAfterAstral(LineOf(Matches[i])) => HighlightsTerm(Matches[i])

\* C17: a query the parser rejects makes the search return an error with
\* its message, and no matches.
C17_RejectedQueryFails ==
    (Asked /\ answer.query \in RejectedQueries) =>
        /\ answer.returned = "Search failed"
        /\ Matches = <<>>

\* a rejected query was tried on an index that holds a line with its word
C17_RejectedOnMatchingIndex ==
    /\ Asked /\ answer.query = "x:alice" /\ answer.limit > 0
    /\ \E d \in 1..Len(segment) : HasWord(Chars(segment[d].line_content), Chars("alice"))
    /\ answer.returned = "Search failed"

\* ------------------------------------------- claims on the search's steps
UpdateLast == {"s_update_last", "r_update_last"}

C19_Debounced ==
    \A p \in Procs :
        (proc[p].op = "search" /\ InSync(p) /\ NoRebuildYet) =>
            /\ \/ LAST_SYNC_TIME[Key(p)] = NoTime
               \/ now - LAST_SYNC_TIME[Key(p)] >= DebounceSecs
            /\ \A q \in Procs \ {p} :
                  Key(q) = Key(p) => proc[q].pc \notin UpdateLast

\* a search is syncing a folder whose last sync was recorded DebounceSecs ago
C19_SyncAfterWindow ==
    \E p \in Procs :
        /\ proc[p].op = "search" /\ InSync(p) /\ NoRebuildYet
        /\ LAST_SYNC_TIME[Key(p)] # NoTime
        /\ now - LAST_SYNC_TIME[Key(p)] >= DebounceSecs

\* C20: a sync that completes, with or without changes to commit, has its
\* time recorded, and recorded while the caller still holds the sync lock.
C20_RecordedBeforeRelease ==
    [][\A p \in Procs :
          /\ (InSync(p) /\ proc'[p].pc \notin
                    {"sync_scan", "sync_read", "sync_writer", "sync_commit", "done"}) =>
                (proc'[p].pc \in UpdateLast /\ lockHeld'[proc[p].sync_lock] = p)
          /\ (proc[p].pc \in UpdateLast /\ proc'[p].pc # proc[p].pc) =>
                (LAST_SYNC_TIME'[Key(p)] = now /\ lockHeld[proc[p].sync_lock] = p)
      ]_vars

\* a search whose sync found nothing to commit has recorded its time, a
\* debounce window after the sync before it
C20_RecordedWithoutChanges ==
    \E p \in Procs :
        /\ Finished(p, "search") /\ proc[p].skip = "synced" /\ ~proc[p].committed
        /\ LAST_SYNC_TIME[Key(p)] = now /\ now >= DebounceSecs

\* ---------------------------------------------- claims on the sync's batch
\* the documents a file should have: one for each line that is not blank,
\* under the line's number in the file
ExpectedDocs(d, f, modified_at) ==
    LET content == Content(f, fs[d][f].mtime)
    IN  {[file_path |-> f, line_number |-> i, line_content |-> content[i],
          modified_at |-> modified_at] :
            i \in {j \in DOMAIN content : content[j] \notin {"", " "}}}

IndexedAt(docs, f) == {x.modified_at : x \in DocsOfFile(docs, f)}

Once(docs, f) == \A x \in DocsOfFile(docs, f) : docs[x] = 1

SyncRan(p) ==
    /\ proc[p].pc = "done" /\ proc[p].result.status = "ok"
    /\ proc[p].op = "search" => proc[p].skip = "synced"

\* what sync_index does to the index, for a call about to commit its batch
BatchApplied(p) ==
    LET d == proc[p].folder
        docs == disk[Key(p)].docs
        current == proc[p].files
        added == {f \in Entries : current[f] # 0 /\ IndexedAt(docs, f) = {}}
        changed == {f \in Entries : /\ current[f] # 0
                                    /\ IndexedAt(docs, f) \notin {{}, {current[f]}}}
        removed == {f \in Entries : current[f] = 0 /\ IndexedAt(docs, f) # {}}
    IN  /\ proc[p].files_to_add = added \cup changed
        /\ proc[p].files_to_remove = removed \cup changed
        /\ proc'[p].pc = AfterSync(proc[p].op) =>
              \A f \in Entries :
                  LET after == DocsOfFile(disk'[Key(p)].docs, f)
                  IN  IF f \in added \cup changed
                      THEN /\ Once(disk'[Key(p)].docs, f)
                           /\ after = IF f \in proc'[p].unread THEN {}
                                      ELSE ExpectedDocs(d, f, current[f])
                      ELSE IF f \in removed THEN after = {}
                      ELSE /\ after = DocsOfFile(docs, f)
                           /\ \A x \in after : disk'[Key(p)].docs[x] = docs[x]

\* the index after a completed sync, against the folder
LevelWithFolder(p) ==
    LET d == proc[p].folder
    IN  \A f \in Entries :
            /\ Once(disk[Key(p)].docs, f)
            /\ DocsOfFile(disk[Key(p)].docs, f) =
                  IF ScanFolder(d)[f] # 0 /\ f \notin proc[p].unread
                  THEN ExpectedDocs(d, f, fs[d][f].mtime) ELSE {}

BatchDocs(p, f, unread) ==
    {x \in AddedDocs(proc[p].folder, proc[p].files_to_add, proc[p].files, unread) :
        x.file_path = f}

Batch(p) == proc[p].files_to_add \cup proc[p].files_to_remove

\* C22: the deletions and additions of a sync become visible in one commit: a
\* query reads the committed documents, and every change of them is either
\* the removal of the index directory or one step of a sync after which the
\* whole of its batch is in place; a sync that found no difference opens no
\* writer and commits nothing.
C22_OneCommitOrNone ==
    [][/\ \A k \in Keys :
            disk'[k].docs # disk[k].docs =>
                \/ ~disk'[k].exists /\ disk'[k].docs = EmptyBag
                \/ \E p \in Procs :
                      /\ Key(p) = k /\ proc[p].pc = "sync_commit"
                      /\ proc'[p].pc = AfterSync(proc[p].op)
       /\ \A p \in Procs :
            /\ (proc[p].pc = "sync_commit" /\ proc'[p].pc = AfterSync(proc[p].op)) =>
                  /\ \A f \in proc[p].files_to_remove :
                        DocsOfFile(disk'[Key(p)].docs, f) =
                            BatchDocs(p, f, proc'[p].unread)
                  /\ \A f \in proc[p].files_to_add :
                        BatchDocs(p, f, proc'[p].unread)
                            \subseteq DocsOfFile(disk'[Key(p)].docs, f)
            /\ proc[p].pc \in {"sync_writer", "sync_commit"} => Batch(p) # {}
            /\ disk[Key(p)].writer = p => proc[p].pc = "sync_commit"
            /\ (proc[p].pc = "s_query" /\ proc'[p].pc = "done" /\ Ok(proc'[p])) =>
                  proc'[p].result.seen = disk[Key(p)].docs
            /\ (proc[p].pc = "sync_read" /\ proc'[p].pc \in UpdateLast) =>
                  /\ Batch(p)' = {} /\ ~proc'[p].committed
                  /\ disk' = disk
      ]_vars

\* a search has read the index while a sync of the folder, its writer open,
\* had deletions and additions still to commit
C22_QueryBesideOpenBatch ==
    \E p, q \in Procs :
        /\ Finished(p, "search") /\ Ok(proc[p]) /\ Key(p) = Key(q)
        /\ proc[q].pc = "sync_commit"
        /\ proc[q].files_to_add # {} /\ proc[q].files_to_remove # {}
        /\ proc[p].result.seen = disk[Key(q)].docs

\* C23: a file of the batch whose read fails is skipped alone: the sync
\* commits the documents of the other files and returns Ok to its caller; the
\* file is left without documents, so the next sync that runs finds it added
\* and reads it again.
C23_UnreadFileRetried ==
    [][\A p \in Procs :
          /\ (proc[p].pc = "sync_commit" /\ proc'[p].pc # "sync_commit") =>
                /\ proc'[p].pc = AfterSync(proc[p].op)
                /\ \A f \in proc'[p].unread :
                      DocsOfFile(disk'[Key(p)].docs, f) = {}
                /\ \A f \in proc[p].files_to_add \ proc'[p].unread :
                      ExpectedDocs(proc[p].folder, f, proc[p].files[f])
                          \subseteq DocsOfFile(disk'[Key(p)].docs, f)
          /\ (proc[p].pc \in UpdateLast /\ proc'[p].pc # proc[p].pc) =>
                proc'[p].result.status \notin {SyncError("search"), SyncError("rebuild")}
          /\ (proc[p].pc = "sync_read" /\ proc'[p].pc # "sync_read") =>
                \A f \in last_call.call.unread :
                    proc[p].files[f] # 0 => f \in proc'[p].files_to_add
      ]_vars

\* a search has committed the lines of a file that the sync before it, which
\* returned Ok with the rest of its batch committed, had failed to read
C23_ReadAgainBySearch ==
    \E p \in Procs :
        /\ proc[p].op = "search" /\ proc[p].pc \in UpdateLast /\ proc[p].committed
        /\ Ok(last_call.call) /\ last_call.call.committed
        /\ last_call.call.unread # {}
        /\ last_call.call.result.seen # EmptyBag
        /\ \A f \in last_call.call.unread :
              /\ DocsOfFile(last_call.call.result.seen, f) = {}
              /\ f \in proc[p].files_to_add
              /\ DocsOfFile(disk[Key(p)].docs, f) # {}

WriterSteps == {"sync_writer", "sync_commit"}

\* C24: an error of the index writer (opening it, adding a document,
\* committing) ends the sync and reaches the caller as the failure of the
\* sync; the call has committed nothing, and no step of a sync other than its
\* successful commit changes the committed documents.
C24_WriterErrorCommitsNothing ==
    [][\A p \in Procs :
          /\ (proc[p].pc \in WriterSteps /\ proc'[p].pc = "done") =>
                /\ proc'[p].result.status = SyncError(proc[p].op)
                /\ ~proc'[p].committed
          /\ (InSync(p) /\ proc'[p] # proc[p]
                /\ ~(proc[p].pc = "sync_commit"
                        /\ proc'[p].pc = AfterSync(proc[p].op))) =>
                /\ disk'[Key(p)].docs = disk[Key(p)].docs
                /\ disk'[Key(p)].meta = disk[Key(p)].meta
      ]_vars

\* a sync that had documents to delete from an index that holds some has
\* failed at its commit, and they are all still there
C24_FailedCommitOverIndex ==
    \E p \in Procs :
        /\ proc[p].pc = "done" /\ proc[p].returned_at = "sync_commit"
        /\ proc[p].result.status = SyncError(proc[p].op)
        /\ \E f \in Files :
              /\ DocsOfFile(disk[Key(p)].docs, f) # {}
              /\ IndexedAt(disk[Key(p)].docs, f) # {fs[proc[p].folder][f].mtime}

\* ------------------------------------------------------ claims on the scan
DigitOf(c) ==
    CASE c = "0" -> 0 [] c = "1" -> 1 [] c = "2" -> 2
      [] c = "3" -> 3 [] c = "4" -> 4 [] c = "5" -> 5

NumberAt(name, from, to) ==
    LET RECURSIVE value(_)
        value(i) == IF i < from THEN 0 ELSE 10 * value(i - 1) + DigitOf(name[i])
    IN  value(to)

DaysIn(year, month) ==
    CASE month \in {1, 3, 5, 7, 8, 10, 12} -> 31
      [] month \in {4, 6, 9, 11} -> 30
      [] month = 2 ->
            IF year % 4 = 0 /\ (year % 100 # 0 \/ year % 400 = 0) THEN 29 ELSE 28
      [] OTHER -> 0

\* the name is YYYY-MM-DD.md for a day of the calendar
IsCalendarDate(f) ==
    LET name == Chars(f)
    IN  /\ Len(name) = 13
        /\ \A i \in {1, 2, 3, 4, 6, 7, 9, 10} : name[i] \in AsciiDigits
        /\ name[5] = "-" /\ name[8] = "-"
        /\ SubSeq(name, 11, 13) = <<".", "m", "d">>
        /\ NumberAt(name, 9, 10) \in
              1..DaysIn(NumberAt(name, 1, 4), NumberAt(name, 6, 7))

\* C25: the scan of a sync yields only files named YYYY-MM-DD.md after a day
\* of the calendar, and no line of any other file is ever indexed.
C25_OnlyCalendarDates ==
    /\ \A p \in Procs : \A f \in Entries :
          proc[p].files[f] # 0 => IsCalendarDate(f)
    /\ \A k \in Keys : \A x \in BagToSet(disk[k].docs) :
          IsCalendarDate(x.file_path)

\* C26: a directory or an entry that cannot be read during the scan is
\* skipped: the scan goes on and the sync proceeds with the files it could
\* list, so no call ever returns out of the scan.
C26_ScanNeverFatal ==
    \A p \in Procs :
        proc[p].pc = "done" => proc[p].returned_at # "sync_scan"

\* ---------------------------------------------- claims on the match spans
\* a line in which every character is one UTF-16 unit and keeps its length
\* in lower case, short enough to be its own snippet
PlainLine(line_chars) ==
    /\ Len(line_chars) <= ContextChars
    /\ \A i \in 1..Len(line_chars) :
          len_utf16(line_chars[i]) = 1 /\ Len(LowerOf(line_chars[i])) = 1

\* an occurrence of a term of the query starts in the line before offset n
TermStartsBefore(line_chars, n) ==
    \E a, b \in 1..Len(line_chars) :
        /\ a <= b /\ a - 1 < n
        /\ IsQueryTerm(SubSeq(line_chars, a, b))

\* C27: of the spans at which the terms of the query occur in a line, the
\* one that anchors the snippet and char_start/char_end is the one that
\* starts lowest, whatever the order of the terms in the query.
C27_AnchorIsLowestSpan ==
    (Answered /\ PlainWords) =>
        \A i \in 1..Len(Matches) :
            PlainLine(LineOf(Matches[i])) =>
                ~TermStartsBefore(LineOf(Matches[i]), Matches[i].char_start)

\* the part of the line the claim gives for an anchor from a to b (counted
\* from 0, b excluded) and k characters after it
Window(line_chars, a, b, k) ==
    SubSeq(line_chars, Max(a - ContextChars, 0) + 1, Min(Len(line_chars), b + k))

\* the spans at which a term of the query stands in the line, whatever the
\* case; with none, the span the snippet falls back to
AnchorSpans(line_chars) ==
    LET at == {x \in (0..Len(line_chars)) \X (1..Len(QueryTerms)) :
                  /\ QueryTerms[x[2]] # <<>>
                  /\ x[1] + Len(QueryTerms[x[2]]) <= Len(line_chars)
                  /\ to_lowercase(SubSeq(line_chars, x[1] + 1,
                                         x[1] + Len(QueryTerms[x[2]])))
                        = QueryTerms[x[2]]}
        found == {<<x[1], x[1] + Len(QueryTerms[x[2]])>> : x \in at}
    IN  IF found # {} THEN found
        ELSE {<<0, Min(Len(line_chars), ContextChars)>>}

\* C28: context_snippet is the line from max(0, start - 50) to
\* min(length, end + k) for some k from 50 to 100, in characters, where
\* start..end is the anchor span.
C28_SnippetWindow ==
    (Answered /\ PlainWords) =>
        \A i \in 1..Len(Matches) :
            \E ab \in AnchorSpans(LineOf(Matches[i])) :
            \E k \in ContextChars..(2 * ContextChars) :
                Matches[i].context_snippet =
                    Window(LineOf(Matches[i]), ab[1], ab[2], k)

\* ------------------------------------------------- claims on the mutexes
MapMutexes == {"cache", "locks", "last"}

HoldsMapMutex(p) == \E m \in MapMutexes : mapMutex[m] = p

\* the steps that open, create, delete, scan, sync or query
IoSteps == {"goc_dir", "goc_open", "sync_scan", "sync_read", "sync_writer",
            "sync_commit", "r_delete", "s_query"}

\* C29: no call does index I/O while it holds one of the three map mutexes:
\* a holder is between two map operations, so that no other call, of this
\* folder or another, waits at a map mutex for I/O.
C29_NoIoUnderMapMutex ==
    \A p \in Procs :
        HoldsMapMutex(p) =>
            /\ proc[p].pc \in {"r_evict_locks", "r_evict_last"}
            /\ proc[p].pc \notin IoSteps

\* a rebuild holds map mutexes for its removals while a call on another
\* folder is at an I/O step
C29_EvictionBesideIo ==
    \E p, q \in Procs :
        /\ HoldsMapMutex(p) /\ proc[p].op = "rebuild"
        /\ proc[q].pc \in IoSteps /\ proc[q].folder # proc[p].folder

\* the map mutex a call needs for its next step
MutexAt(pc) ==
    CASE pc \in {"goc_check", "goc_store", "r_evict_cache"} -> "cache"
      [] pc \in {"s_lock_entry", "r_evict_locks", "r_new_lock"} -> "locks"
      [] pc \in {"s_should_sync", "s_update_last", "r_evict_last",
                  "r_update_last"} -> "last"
      [] OTHER -> "none"

\* the call that holds what call p waits for, if p waits
WaitsFor(p) ==
    IF MutexAt(proc[p].pc) # "none" THEN mapMutex[MutexAt(proc[p].pc)]
    ELSE IF proc[p].pc = "r_lock" THEN lockHeld[proc[p].sync_lock]
    ELSE NoProc

InFlight(p) == proc[p].pc \notin {"idle", "done"}

NoWaitCycle ==
    /\ \A waiting \in SUBSET Procs \ {{}} :
          \E p \in waiting : WaitsFor(p) \notin waiting
    /\ \A p \in Procs :
          InFlight(p) =>
              IF WaitsFor(p) = NoProc THEN ENABLED Step(p)
              ELSE InFlight(WaitsFor(p))

\* C30: no set of calls wait for one another at the map mutexes and the
\* sync locks, a call that waits waits for a call in flight, and a call that
\* does not wait can take its step; with every call scheduled while it can
\* take a step, every call returns.
C30_EveryCallReturns ==
    /\ []NoWaitCycle
    /\ \A p \in Procs : InFlight(p) ~> (proc[p].pc = "done")

\* a rebuild waits at its new sync lock, which a search took from the table
\* and holds for its sync
C30_RebuildWaitsForSearch ==
    \E p, q \in Procs :
        /\ proc[p].pc = "r_lock" /\ WaitsFor(p) = q
        /\ proc[q].op = "search" /\ InSync(q)

\* ------------------------------------------------ claims on the rebuild
\* C31: once a rebuild has returned Ok, the handle the cache holds for its
\* folder was opened or created after the rebuild deleted the directory,
\* whatever searches of the folder ran beside it.
C31_CacheHandleAfterDelete ==
    \A p \in Procs :
        (Finished(p, "rebuild") /\ Ok(proc[p])
            /\ INDEX_CACHE[Key(p)] # NoIndex) =>
                INDEX_CACHE[Key(p)].epoch >= proc[p].deleted

\* ----------------------------------------------- claims on the sync lock
\* the steps at which a call holds the guard of its sync lock
GuardedSteps == {"s_should_sync", "sync_scan", "sync_read", "sync_writer",
                 "sync_commit", "s_update_last", "r_update_last"}

\* C32: a search that took the sync lock gives it back on every way out:
\* after the sync, when the sync is not due, and when the sync fails and
\* the search returns its error; the lock is then free for a later search.
C32_GuardDroppedOnExit ==
    \A l \in LockIds :
        lockHeld[l] # NoProc =>
            /\ proc[lockHeld[l]].pc \in GuardedSteps
            /\ proc[lockHeld[l]].sync_lock = l

\* a search holds for its sync the lock that an earlier search held when
\* its sync failed
C32_LockTakenAfterFailure ==
    \E p, q \in Procs :
        /\ Finished(p, "search") /\ proc[p].result.status = SyncError("search")
        /\ NoRebuildYet /\ proc[q].op = "search" /\ proc[q].id > proc[p].id
        /\ InSync(q) /\ lockHeld[proc[q].sync_lock] = q
        /\ proc[q].sync_lock = proc[p].id

\* the call before this one was a sync of the same folder that succeeded, and
\* no file of the folder has changed since that call started
SecondSync(p) ==
    /\ proc[p].op = "search" /\ proc[p].pc # "idle"
    /\ last_call.call.pc = "done" /\ Ok(last_call.call)
    /\ last_call.call.op = "search" => last_call.call.skip = "synced"
    /\ last_call.call.folder = proc[p].folder
    /\ FilesUnchangedSince(last_call.call)

\* the sync of this call found no difference and committed nothing
NothingToSync(p) ==
    /\ proc[p].pc \notin WriterSteps
    /\ ~proc[p].committed
    /\ Batch(p) = {}

EveryNoteHasLines(d) ==
    \A f \in Entries :
        ScanFolder(d)[f] # 0 => ExpectedDocs(d, f, ScanFolder(d)[f]) # {}

C34_OneTimestampPerFile ==
    \A k \in Keys, f \in Entries :
        Cardinality(IndexedAt(disk[k].docs, f)) <= 1

\* C35: for every match returned, 0 <= char_start <= char_end <= the length
\* of context_snippet in UTF-16 code units, also when no term of the query
\* stands in the line and when lower-casing changes the number of characters
\* of the line.
C35_SpanWithinSnippet ==
    Answered =>
        \A i \in 1..Len(Matches) :
            /\ 0 <= Matches[i].char_start
            /\ Matches[i].char_start <= Matches[i].char_end
            /\ Matches[i].char_end <= Utf16Length(Matches[i].context_snippet)

\* a match on a line that lower-casing makes longer, whose term ends, counted
\* in the lower-cased line, past the end of the snippet
C35_TermPastSnippetEnd ==
    /\ Answered
    /\ \E i \in 1..Len(Matches) :
          LET line == LineOf(Matches[i])
              positions == match_positions(to_lowercase(line), QueryTerms)
          IN  /\ Len(to_lowercase(line)) > Len(line)
              /\ positions # <<>>
              /\ positions[1][2] > Len(Matches[i].context_snippet)
              /\ 0 < Matches[i].char_start
              /\ Matches[i].char_end = Utf16Length(Matches[i].context_snippet)

\* the matches of an answer, each with the number of times it is returned
MatchBag(found) ==
    [m \in {found.matches[i] : i \in 1..Len(found.matches)} |->
        Cardinality({i \in 1..Len(found.matches) : found.matches[i] = m})]

\* the answer to the same query on the same index in the other order
OtherOrder ==
    search_index(segment, answer.query, answer.limit, ~answer.sort_by_date)

\* C36: ordering by date only permutes the matches: on the same index, with
\* the same query and limit, a search ordered by date and one ordered by
\* relevance return the same matches, each as many times.
C36_DateOrderPermutes ==
    Asked =>
        /\ answer.found.status = OtherOrder.status
        /\ MatchBag(answer.found) = MatchBag(OtherOrder)

\* what the application keeps for the folder of key k
FolderState(k) ==
    [cache |-> INDEX_CACHE[k], sync_lock |-> SYNC_LOCKS[k],
     last_sync |-> LAST_SYNC_TIME[k], index |-> disk[k]]

\* C37: a call on one folder never adds, removes or replaces the cache entry,
\* the sync-lock entry or the last-sync entry of another folder, nor changes
\* the other folder's committed index: whatever changes for a key is changed
\* by a step of a call whose folder path hashes to that key.
C37_FoldersIsolated ==
    [][\A k \in Keys :
          FolderState(k)' # FolderState(k) =>
              \E p \in Procs :
                  /\ proc'[p] # proc[p]
                  /\ proc[p].op # "none"
                  /\ hash_folder_path(proc[p].folder) = k]_vars

\* a rebuild of one folder has returned Ok after a search of another folder
\* began, and the other folder still has its handle, its lock, its sync time
\* and its documents
C37_RebuildBesideOtherFolder ==
    \E p, q \in Procs :
        /\ Finished(p, "rebuild") /\ Ok(proc[p])
        /\ Finished(q, "search") /\ Ok(proc[q])
        /\ proc[p].folder # proc[q].folder
        /\ proc[p].id > proc[q].id
        /\ INDEX_CACHE[Key(q)] = proc[q].index
        /\ SYNC_LOCKS[Key(q)] # NoLock
        /\ LAST_SYNC_TIME[Key(q)] # NoTime
        /\ disk[Key(q)].docs = proc[q].result.seen
        /\ disk[Key(q)].docs # EmptyBag
        /\ INDEX_CACHE[Key(p)] # INDEX_CACHE[Key(q)]

\* the sync of this search was skipped: its lock was busy or its last sync
\* was less than five seconds ago
Skipped(call) == call.skip \in {"busy", "debounced"}

\* C38: a search that skips the sync, because the lock is busy or because of
\* the debounce, leaves the committed index of the folder and its recorded
\* last-sync time as they are, from the step that decides to skip to its
\* return; and the query step of any search writes nothing to the index.
C38_SkippedSyncWritesNothing ==
    [][\A p \in Procs :
          (/\ proc[p].op = "search"
           /\ proc'[p] # proc[p]
           /\ Skipped(proc'[p]) \/ proc[p].pc = "s_query") =>
                /\ disk'[Key(p)] = disk[Key(p)]
                /\ LAST_SYNC_TIME'[Key(p)] = LAST_SYNC_TIME[Key(p)]]_vars

\* a search whose sync was debounced has returned the documents an earlier
\* sync committed, and the recorded time is still that of the earlier sync
C38_DebouncedSearchReturned ==
    \E p \in Procs :
        /\ Finished(p, "search") /\ Ok(proc[p]) /\ proc[p].queries = 1
        /\ proc[p].skip = "debounced" /\ proc[p].syncs = 0
        /\ proc[p].result.seen = disk[Key(p)].docs
        /\ disk[Key(p)].docs # EmptyBag
        /\ LAST_SYNC_TIME[Key(p)] # NoTime
        /\ LAST_SYNC_TIME[Key(p)] < now

====
